---- MODULE Spec2Model ----
(***************************************************************************)
(* A model of the to-do list application.                                  *)
(*                                                                         *)
(*   backend/server.js      the REST service: four Express routes over one *)
(*                          MongoDB collection, and the startup connection *)
(*   frontend/src/App.js    the React component: a local task list with    *)
(*                          add / toggle / delete handlers                 *)
(*                                                                         *)
(* The two programs share no state.  Spec is the backend, SpecUI is the    *)
(* frontend; each leaves the other's variables alone.                      *)
(*                                                                         *)
(* JSON values are tuples of strings whose head is the JavaScript type:    *)
(*   <<"undefined">>, <<"null">>, <<"bool", "true">>, <<"str", c1, .., cn>> *)
(* (a string is its characters, so that trimming is computed).  A document *)
(* or request body is a function from field names to values; an absent     *)
(* field is absent from its DOMAIN.                                        *)
(***************************************************************************)
EXTENDS Integers, Sequences, FiniteSets, TLC

VARIABLES
    conn,         \* server.js:13  tasksCollection: "pending" (undefined), "connected", "exited"
    store,        \* the documents of the tasks collection, in natural (insertion) order
    nextId,       \* the next ObjectId the driver will generate
    now,          \* the server's clock: the latest time new Date() returned
    pc,           \* per in-flight request: where its handler is
    req,          \* per request: method, :id path parameter, JSON body
    local,        \* per request: the handler's newTask / updateDoc
    arr,          \* history, per request: what held when it arrived
    last,         \* the response the last step sent, with the request it answers
    deletedIds,   \* history: ids whose DELETE was answered 204
    tasks,        \* App.js:5   useState([])
    newTaskText,  \* App.js:6   useState('')
    uiNow,        \* the browser's clock, read by Date.now()
    live,         \* history: ids added to the local list and not deleted since
    flipped       \* history: ids toggled an odd number of times since added

vars == <<conn, store, nextId, now, pc, req, local, arr, last, deletedIds,
          tasks, newTaskText, uiNow, live, flipped>>
backendVars == <<conn, store, nextId, now, pc, req, local, arr, last, deletedIds>>
uiVars == <<tasks, newTaskText, uiNow, live, flipped>>

(***************************************************************************)
(* Bounds                                                                  *)
(***************************************************************************)
MaxReq == 2       \* requests in flight at once
MaxId == 2        \* ObjectIds the driver generates in a run
MaxNow == 1       \* the latest time the server's clock reaches
MaxLen == 2       \* characters typed into the new-task input
MaxTasks == 3     \* tasks in the client's list
MaxUiNow == 2     \* ticks of the browser clock

Slots == 1..MaxReq

(***************************************************************************)
(* JSON values and JavaScript's view of them                               *)
(***************************************************************************)
Undefined == <<"undefined">>
Null == <<"null">>
JTrue == <<"bool", "true">>
JFalse == <<"bool", "false">>
Str(chars) == <<"str">> \o chars
Chars(v) == Tail(v)

TypeOf(v) == IF v[1] = "bool" THEN "boolean"
             ELSE IF v[1] = "str" THEN "string"
             ELSE IF v[1] = "null" THEN "object"
             ELSE "undefined"

\* !v : undefined, null, false and "" are falsy
Falsy(v) == v \in {Undefined, Null, JFalse, Str(<<>>)}

\* o.k : undefined when the field is absent
Get(o, k) == IF k \in DOMAIN o THEN o[k] ELSE Undefined

EmptyDoc == [k \in {} |-> Undefined]

RECURSIVE TrimLeft(_)
TrimLeft(s) == IF s # <<>> /\ Head(s) = " " THEN TrimLeft(Tail(s)) ELSE s

RECURSIVE TrimRight(_)
TrimRight(s) == IF s # <<>> /\ s[Len(s)] = " "
                THEN TrimRight(SubSeq(s, 1, Len(s) - 1)) ELSE s

\* String.prototype.trim
Trim(s) == TrimRight(TrimLeft(s))

(***************************************************************************)
(* Identifiers.  <<"oid", n>> stands for the 24-hex-digit string of the    *)
(* n-th ObjectId; <<"bad">> for a path segment that is no ObjectId.        *)
(***************************************************************************)
Oid(n) == <<"oid", n>>
WellFormedIds == {Oid(n) : n \in 1..MaxId}
PathIds == WellFormedIds \cup {<<"bad">>}

\* no validation of the path parameter
ObjectId_isValid_Any(id) == TRUE

ObjectId_isValid(id) == id[1] = "oid"

RECURSIVE FirstUnused(_, _)
FirstUnused(s, k) == IF \E i \in 1..Len(s) : s[i]._id = Oid(k) THEN FirstUnused(s, k + 1) ELSE k

\* a generator that hands out the first id no stored document has
NewObjectId_Reuse(s, n) == Oid(FirstUnused(s, 1))

\* the _id the driver gives the next inserted document
NewObjectId(s, n) == Oid(n)

(***************************************************************************)
(* The collection's operations                                             *)
(***************************************************************************)
Matches(s, id) == {i \in 1..Len(s) : s[i]._id = id}
FirstMatch(s, id) == CHOOSE i \in Matches(s, id) : \A j \in Matches(s, id) : i <= j

\* find({}).toArray()
FindAll(s) == s

\* findOne({_id})
FindOne(s, id) == IF Matches(s, id) = {} THEN Null ELSE <<"task", s[FirstMatch(s, id)]>>

\* insertOne(doc): the document is stored with a generated _id
InsertOne(s, doc, id) ==
    Append(s, [k \in DOMAIN doc \cup {"_id"} |-> IF k = "_id" THEN id ELSE doc[k]])

\* a replacement instead of a $set: the document becomes upd, under its _id
ApplySet_Replace(doc, upd) ==
    [k \in {"_id"} \cup DOMAIN upd |-> IF k = "_id" THEN doc._id ELSE upd[k]]

\* { $set: upd } applied to one document
ApplySet(doc, upd) ==
    [k \in DOMAIN doc \cup DOMAIN upd |-> IF k \in DOMAIN upd THEN upd[k] ELSE doc[k]]

MatchedCount(s, id) == IF Matches(s, id) = {} THEN 0 ELSE 1

\* updateOne({_id}, {$set: upd}): the first matching document is updated
UpdateOne(s, id, upd) ==
    IF Matches(s, id) = {} THEN s
    ELSE [s EXCEPT ![FirstMatch(s, id)] = ApplySet(@, upd)]

DeletedCount(s, id) == IF Matches(s, id) = {} THEN 0 ELSE 1

\* deleteOne({_id}): the first matching document is removed
DeleteOne(s, id) ==
    IF Matches(s, id) = {} THEN s
    ELSE LET i == FirstMatch(s, id)
         IN  SubSeq(s, 1, i - 1) \o SubSeq(s, i + 1, Len(s))

Ids(s) == {s[i]._id : i \in 1..Len(s)}

(***************************************************************************)
(* Requests and responses                                                  *)
(***************************************************************************)
\* server.js:28  express.json() leaves req.body an object, {} for a request
\* without a JSON body.  The values requests carry: POST text "", " " and "a"
\* (or none); PUT text "a" (or none); PUT completed true or the string "y" (or
\* none), the two fields together in one body with the non-boolean completed
PostTexts == {Str(<<>>), Str(<<" ">>), Str(<<"a">>)}
PutTexts == {Str(<<"a">>)}
CompletedInputs == {JTrue, Str(<<"y">>)}

MkBody(t, c) ==
    [k \in (IF t = Undefined THEN {} ELSE {"text"})
           \cup (IF c = Undefined THEN {} ELSE {"completed"})
         |-> IF k = "text" THEN t ELSE c]

PostBodies == {MkBody(t, Undefined) : t \in PostTexts \cup {Undefined}}
PutBodies == {MkBody(t, Undefined) : t \in PutTexts \cup {Undefined}}
             \cup {MkBody(Undefined, c) : c \in CompletedInputs}
             \cup {MkBody(t, Str(<<"y">>)) : t \in PutTexts}

NoReq == [method |-> "none", id |-> <<"none">>, body |-> EmptyDoc]
NoResp == [status |-> 0, body |-> <<"none">>]
NoArr == [conn |-> "none", deleted |-> {}]
Silent == [req |-> NoReq, arr |-> NoArr, resp |-> NoResp]

Text(status, msg) == [status |-> status, body |-> <<"text", msg>>]
Message(status, msg) == [status |-> status, body |-> <<"message", msg>>]
Json(status, v) == [status |-> status, body |-> v]

\* no check of the collection handle
Initialized_Always(c) == TRUE

\* server.js:34  tasksCollection is set
Initialized(c) == c = "connected"

\* a new task without its creation timestamp
NewTask_NoTimestamp(body, t) ==
    LET text == Get(body, "text")
    IN  [k \in (IF text = Undefined THEN {} ELSE {"text"}) \cup {"completed"}
           |-> IF k = "text" THEN text ELSE JFalse]

\* server.js:52-56
NewTask(body, t) ==
    LET text == Get(body, "text")
    IN  [k \in (IF text = Undefined THEN {} ELSE {"text"}) \cup {"completed", "createdAt"}
           |-> IF k = "text" THEN text
               ELSE IF k = "completed" THEN JFalse
               ELSE <<"date", t>>]

\* a check for an absent text only
TextMissing_OnlyAbsent(task) == Get(task, "text") = Undefined

\* server.js:57
TextMissing(task) == Falsy(Get(task, "text"))

\* completed copied whenever it is present, whatever its type
UpdateFields_AnyCompleted(body) ==
    LET text == Get(body, "text")
        completed == Get(body, "completed")
    IN  [k \in (IF TypeOf(text) # "undefined" THEN {"text"} ELSE {})
               \cup (IF TypeOf(completed) # "undefined" THEN {"completed"} ELSE {})
           |-> IF k = "text" THEN text ELSE completed]

\* server.js:84-90
UpdateFields(body) ==
    LET text == Get(body, "text")
        completed == Get(body, "completed")
    IN  [k \in (IF TypeOf(text) # "undefined" THEN {"text"} ELSE {})
               \cup (IF TypeOf(completed) = "boolean" THEN {"completed"} ELSE {})
           |-> IF k = "text" THEN text ELSE completed]

\* server.js:95
WithUpdatedAt(doc, t) ==
    [k \in DOMAIN doc \cup {"updatedAt"} |-> IF k = "updatedAt" THEN <<"date", t>> ELSE doc[k]]

\* the event loop is free to run the next callback
Ready == last = Silent

StoreSteps == {"find", "insertOne", "findInserted", "updateOne", "findUpdated", "deleteOne"}

(***************************************************************************)
(* Startup                                                                 *)
(***************************************************************************)
InitBackend ==
    /\ conn = "pending"
    /\ store = <<>>
    /\ nextId = 1
    /\ now = 0
    /\ pc = [r \in Slots |-> "idle"]
    /\ req = [r \in Slots |-> NoReq]
    /\ local = [r \in Slots |-> EmptyDoc]
    /\ arr = [r \in Slots |-> NoArr]
    /\ last = Silent
    /\ deletedIds = {}

InitUI ==
    /\ tasks = <<>>
    /\ newTaskText = <<>>
    /\ uiNow = 0
    /\ live = {}
    /\ flipped = {}

Init == InitBackend /\ InitUI

\* server.js:17-21
ConnectOk ==
    /\ Ready
    /\ conn = "pending"
    /\ conn' = "connected"
    /\ last' = Silent
    /\ UNCHANGED <<store, nextId, now, pc, req, local, arr, deletedIds>>
    /\ UNCHANGED uiVars

\* server.js:22-25  process.exit(1)
ConnectFail ==
    /\ Ready
    /\ conn = "pending"
    /\ conn' = "exited"
    /\ last' = Silent
    /\ UNCHANGED <<store, nextId, now, pc, req, local, arr, deletedIds>>
    /\ UNCHANGED uiVars

\* new Date(): the clock does not run backwards
Clock == now..MaxNow

(***************************************************************************)
(* Request handlers.  A handler runs from the request's arrival to its     *)
(* first await in one step; each awaited collection operation is a step of *)
(* its own, taken when the store executes it, and the code that follows it *)
(* up to the next await (or the response) belongs to the same step.  A     *)
(* request holds a slot while a collection operation of it is pending.     *)
(* `last` is the service's output: the response a handler has just sent.   *)
(* Node runs one callback at a time, so nothing else happens between a     *)
(* handler's res.send / res.json and its return to the event loop.         *)
(***************************************************************************)
Request(method, id, body) == [method |-> method, id |-> id, body |-> body]

\* history: the connection state on the request's arrival, and which of the
\* ids it concerns (all of them for a GET) had been deleted by then
Concerns(request) == IF request.method = "GET" THEN WellFormedIds ELSE {request.id}
Arrival(request) == [conn |-> conn, deleted |-> deletedIds \cap Concerns(request)]

\* requests are anonymous: an arriving request takes the first free slot
FreeSlot(r) == pc[r] = "idle" /\ \A q \in Slots : pc[q] = "idle" => r <= q

\* res.status(..).send(..) / res.json(..) on the request's arrival
Reject(r, request, response) ==
    /\ last' = [req |-> request, arr |-> Arrival(request), resp |-> response]
    /\ UNCHANGED <<pc, req, local, arr>>

\* the handler suspends on a collection operation
Await(r, request, step, locals) ==
    /\ pc' = [pc EXCEPT ![r] = step]
    /\ req' = [req EXCEPT ![r] = request]
    /\ local' = [local EXCEPT ![r] = locals]
    /\ arr' = [arr EXCEPT ![r] = Arrival(request)]
    /\ last' = Silent

\* the handler resumes on the next collection operation
Continue(r, step, locals) ==
    /\ pc' = [pc EXCEPT ![r] = step]
    /\ local' = [local EXCEPT ![r] = locals]
    /\ last' = Silent
    /\ UNCHANGED <<req, arr>>

\* res.status(..).send(..) / res.json(..) after a collection operation
Respond(r, response) ==
    /\ last' = [req |-> req[r], arr |-> arr[r], resp |-> response]
    /\ pc' = [pc EXCEPT ![r] = "idle"]
    /\ req' = [req EXCEPT ![r] = NoReq]
    /\ local' = [local EXCEPT ![r] = EmptyDoc]
    /\ arr' = [arr EXCEPT ![r] = NoArr]

InsertsPending == Cardinality({q \in Slots : pc[q] = "insertOne"})

\* server.js:33-37  GET /tasks, up to the await of find
GetTasks(r) ==
    /\ Ready
    /\ conn # "exited"
    /\ FreeSlot(r)
    /\ LET request == Request("GET", <<"none">>, EmptyDoc)
       IN  IF ~Initialized(conn)
           THEN Reject(r, request, Text(503, "Database not initialized"))
           ELSE Await(r, request, "find", EmptyDoc)
    /\ UNCHANGED <<conn, store, nextId, now, deletedIds>>
    /\ UNCHANGED uiVars

\* server.js:38-39
Find(r) ==
    /\ Ready
    /\ pc[r] = "find"
    /\ Respond(r, Json(200, <<"array", FindAll(store)>>))
    /\ UNCHANGED <<conn, store, nextId, now, deletedIds>>
    /\ UNCHANGED uiVars

\* server.js:47-60  POST /tasks, up to the await of insertOne
PostTasks(r, body, t) ==
    /\ Ready
    /\ conn # "exited"
    /\ FreeSlot(r)
    /\ LET request == Request("POST", <<"none">>, body)
           newTask == NewTask(body, t)
       IN  IF ~Initialized(conn)
           THEN /\ Reject(r, request, Text(503, "Database not initialized"))
                /\ UNCHANGED now
           ELSE /\ now' = t
                /\ IF TextMissing(newTask)
                   THEN Reject(r, request, Message(400, "Task text cannot be empty"))
                   ELSE /\ nextId + InsertsPending <= MaxId
                        /\ Await(r, request, "insertOne", newTask)
    /\ UNCHANGED <<conn, store, nextId, deletedIds>>
    /\ UNCHANGED uiVars

\* server.js:60  insertOne executes; result.insertedId is kept for the read-back
InsertTask(r) ==
    /\ Ready
    /\ pc[r] = "insertOne"
    /\ LET id == NewObjectId(store, nextId)
       IN  /\ store' = InsertOne(store, local[r], id)
           /\ Continue(r, "findInserted", [insertedId |-> id])
    /\ nextId' = nextId + 1
    /\ UNCHANGED <<conn, now, deletedIds>>
    /\ UNCHANGED uiVars

\* server.js:63-64
FindInserted(r) ==
    /\ Ready
    /\ pc[r] = "findInserted"
    /\ Respond(r, Json(201, FindOne(store, local[r].insertedId)))
    /\ UNCHANGED <<conn, store, nextId, now, deletedIds>>
    /\ UNCHANGED uiVars

\* server.js:72-100  PUT /tasks/:id, up to the await of updateOne
PutTask(r, id, body, t) ==
    /\ Ready
    /\ conn # "exited"
    /\ FreeSlot(r)
    /\ LET request == Request("PUT", id, body)
           updateDoc == UpdateFields(body)
       IN  IF ~Initialized(conn)
           THEN /\ Reject(r, request, Text(503, "Database not initialized"))
                /\ UNCHANGED now
           ELSE IF ~ObjectId_isValid(id)
           THEN /\ Reject(r, request, Message(400, "Invalid task ID format"))
                /\ UNCHANGED now
           ELSE IF DOMAIN updateDoc = {}
           THEN /\ Reject(r, request, Message(400, "No update fields provided"))
                /\ UNCHANGED now
           ELSE /\ now' = t
                /\ Await(r, request, "updateOne", WithUpdatedAt(updateDoc, t))
    /\ UNCHANGED <<conn, store, nextId, deletedIds>>
    /\ UNCHANGED uiVars

\* server.js:97-104  updateOne executes
UpdateTask(r) ==
    /\ Ready
    /\ pc[r] = "updateOne"
    /\ store' = UpdateOne(store, req[r].id, local[r])
    /\ IF MatchedCount(store, req[r].id) = 0
       THEN Respond(r, Message(404, "Task not found"))
       ELSE Continue(r, "findUpdated", EmptyDoc)
    /\ UNCHANGED <<conn, nextId, now, deletedIds>>
    /\ UNCHANGED uiVars

\* server.js:105-106
FindUpdated(r) ==
    /\ Ready
    /\ pc[r] = "findUpdated"
    /\ Respond(r, Json(200, FindOne(store, req[r].id)))
    /\ UNCHANGED <<conn, store, nextId, now, deletedIds>>
    /\ UNCHANGED uiVars

\* server.js:114-123  DELETE /tasks/:id, up to the await of deleteOne
DeleteTask(r, id) ==
    /\ Ready
    /\ conn # "exited"
    /\ FreeSlot(r)
    /\ LET request == Request("DELETE", id, EmptyDoc)
       IN  IF ~Initialized(conn)
           THEN Reject(r, request, Text(503, "Database not initialized"))
           ELSE IF ~ObjectId_isValid(id)
           THEN Reject(r, request, Message(400, "Invalid task ID format"))
           ELSE Await(r, request, "deleteOne", EmptyDoc)
    /\ UNCHANGED <<conn, store, nextId, now, deletedIds>>
    /\ UNCHANGED uiVars

\* server.js:123-127  deleteOne executes
RemoveTask(r) ==
    /\ Ready
    /\ pc[r] = "deleteOne"
    /\ store' = DeleteOne(store, req[r].id)
    /\ IF DeletedCount(store, req[r].id) = 0
       THEN /\ Respond(r, Message(404, "Task not found"))
            /\ UNCHANGED deletedIds
       ELSE /\ Respond(r, Json(204, <<"empty">>))
            /\ deletedIds' = deletedIds \cup {req[r].id}
    /\ UNCHANGED <<conn, nextId, now>>
    /\ UNCHANGED uiVars

\* server.js:40-43, 65-68, 107-110, 128-131  the awaited operation rejects,
\* leaving the collection as it was
ErrorText(step) ==
    IF step = "find" THEN "Error fetching tasks"
    ELSE IF step \in {"insertOne", "findInserted"} THEN "Error adding task"
    ELSE IF step \in {"updateOne", "findUpdated"} THEN "Error updating task"
    ELSE "Error deleting task"

StoreError(r) ==
    /\ Ready
    /\ pc[r] \in StoreSteps
    /\ Respond(r, Text(500, ErrorText(pc[r])))
    /\ UNCHANGED <<conn, store, nextId, now, deletedIds>>
    /\ UNCHANGED uiVars

\* the handler that sent the response returns to the event loop
Return ==
    /\ ~Ready
    /\ last' = Silent
    /\ UNCHANGED <<conn, store, nextId, now, pc, req, local, arr, deletedIds>>
    /\ UNCHANGED uiVars

Next ==
    \/ ConnectOk
    \/ ConnectFail
    \/ \E r \in Slots : GetTasks(r)
    \/ \E r \in Slots : Find(r)
    \/ \E r \in Slots : \E body \in PostBodies : \E t \in Clock : PostTasks(r, body, t)
    \/ \E r \in Slots : InsertTask(r)
    \/ \E r \in Slots : FindInserted(r)
    \/ \E r \in Slots : \E id \in PathIds : \E body \in PutBodies :
           \E t \in Clock : PutTask(r, id, body, t)
    \/ \E r \in Slots : UpdateTask(r)
    \/ \E r \in Slots : FindUpdated(r)
    \/ \E r \in Slots : \E id \in PathIds : DeleteTask(r, id)
    \/ \E r \in Slots : RemoveTask(r)
    \/ \E r \in Slots : StoreError(r)
    \/ Return

Spec == Init /\ [][Next]_vars



(***************************************************************************)
(* Properties of the service                                               *)
(***************************************************************************)
Sent == last # Silent
Answered(method) == Sent /\ last.req.method = method
Status == last.resp.status
OnId == last.req.method \in {"PUT", "DELETE"}

\* the request supplies no text, or the empty string
NoText(body) == "text" \notin DOMAIN body \/ body.text = Str(<<>>)
\* the request supplies a field the update route accepts
SuppliesField(body) ==
    \/ "text" \in DOMAIN body
    \/ "completed" \in DOMAIN body /\ body.completed \in {JTrue, JFalse}

Inserting(r) == pc[r] = "insertOne" /\ pc'[r] = "findInserted"
Updating(r) == pc[r] = "updateOne" /\ pc'[r] = "findUpdated"
Inserted == store'[Len(store')]

\* C2: a Create task answered with 201 has added exactly one record: the
\* supplied text, completed false, a createdAt, an id no stored record has,
\* every stored record left as it was; 201 is sent only by the request that
\* made that insert; and a List tasks after one create on the empty store, with
\* nothing else done to the store, returns exactly that record.
C2_CreateAddsOneRecord ==
    /\ [][\A r \in Slots :
            /\ Inserting(r) =>
                 /\ Len(store') = Len(store) + 1
                 /\ SubSeq(store', 1, Len(store)) = store
                 /\ "text" \in DOMAIN req[r].body
                 /\ Inserted.text = req[r].body.text
                 /\ Inserted.completed = JFalse
                 /\ "createdAt" \in DOMAIN Inserted
                 /\ Inserted._id \notin Ids(store)
                 /\ Inserted._id = local'[r].insertedId
            /\ (pc'[r] = "findInserted" /\ pc[r] # "findInserted") => pc[r] = "insertOne"
         ]_vars
    /\ [][(last'.resp.status = 201 /\ last' # last) =>
            \E r \in Slots : /\ pc[r] = "findInserted"
                            /\ pc'[r] = "idle"
                            /\ last'.req = req[r]
                            /\ req[r].method = "POST"]_vars
    /\ [](Answered("GET") /\ Status = 200 =>
            /\ last.resp.body = <<"array", store>>
            /\ (nextId = 2 /\ deletedIds = {} /\ "updatedAt" \notin DOMAIN store[1]) =>
                 /\ Len(store) = 1
                 /\ store[1].completed = JFalse
                 /\ "createdAt" \in DOMAIN store[1]
                 /\ ~NoText(store[1]))

\* a second create has been answered 201 with the record it stored, beside the first
C2_Witness ==
    /\ Answered("POST")
    /\ Status = 201
    /\ Len(store) = 2
    /\ last.resp.body = <<"task", store[2]>>
    /\ store[2].text = last.req.body.text
    /\ store[2]._id # store[1]._id

\* C3 as stated: a Create task whose text is "" or omitted is answered 400.
C3_EmptyTextAnswered400 ==
    (Answered("POST") /\ NoText(last.req.body)) => Status = 400

\* C3, amended: once the store connection is established, a Create task whose
\* text is "" or omitted is answered 400 "Task text cannot be empty" (503
\* before that); either way the store is as it was before the request and no
\* store operation is left pending for it.
C3_EmptyTextRejected ==
    /\ []((Answered("POST") /\ NoText(last.req.body)) =>
            IF last.arr.conn = "connected"
            THEN last.resp = Message(400, "Task text cannot be empty")
            ELSE Status = 503)
    /\ [](\A r \in Slots : req[r].method = "POST" => ~NoText(req[r].body))
    /\ [][(last' # last /\ last'.req.method = "POST" /\ NoText(last'.req.body)) =>
            (store' = store /\ pc' = pc /\ nextId' = nextId)]_vars

\* a create without a text is answered 400 while the store holds a record
C3_Witness ==
    /\ Answered("POST")
    /\ "text" \notin DOMAIN last.req.body
    /\ Status = 400
    /\ Len(store) = 1

\* C4: every record Create task inserts has a text that is a string and is
\* non-empty after trimming.
C4_CreatedTextNotBlank ==
    [][\A r \in Slots :
         Inserting(r) => (Inserted.text[1] = "str" /\ Trim(Chars(Inserted.text)) # <<>>)]_vars

\* C5: the update of a matched record changes, in that record, text and
\* completed only where the request supplies them (completed: as a boolean), and
\* sets updatedAt; its _id and createdAt and its other fields stay, and so does
\* every other record.
C5_UpdateMergesSuppliedFields ==
    [][\A r \in Slots :
         Updating(r) =>
           LET i == FirstMatch(store, req[r].id)
               body == req[r].body
           IN  /\ Cardinality(Matches(store, req[r].id)) = 1
               /\ Len(store') = Len(store)
               /\ \A j \in 1..Len(store) : j # i => store'[j] = store[j]
               /\ DOMAIN store'[i] = DOMAIN store[i] \cup {"updatedAt"}
               /\ store'[i]._id = store[i]._id
               /\ store'[i].createdAt = store[i].createdAt
               /\ store'[i].updatedAt = local[r].updatedAt
               /\ store'[i].text = IF "text" \in DOMAIN body THEN body.text
                                   ELSE store[i].text
               /\ store'[i].completed =
                    IF "completed" \in DOMAIN body /\ body.completed \in {JTrue, JFalse}
                    THEN body.completed ELSE store[i].completed]_vars

\* an update of completed alone has been applied to the first of two records:
\* completed true, an updatedAt later than the createdAt, the text as created
C5_Witness ==
    \E r \in Slots :
        /\ pc[r] = "findUpdated"
        /\ DOMAIN req[r].body = {"completed"}
        /\ Len(store) = 2
        /\ store[1]._id = req[r].id
        /\ store[1].completed = JTrue
        /\ store[1].text = Str(<<" ">>)
        /\ store[1].createdAt = <<"date", 0>>
        /\ "updatedAt" \in DOMAIN store[1]
        /\ store[1].updatedAt = <<"date", 1>>
        /\ "updatedAt" \notin DOMAIN store[2]

\* the id of the answered request matched no record while it was served: it
\* had been deleted when the request arrived, or no record with it was yet made
NoMatch == last.req.id \in last.arr.deleted \/ last.req.id[2] >= nextId

\* C6 as stated: with the store connected, on Update task and Delete task a
\* malformed id is answered with the invalid-id 400 and a well-formed id that
\* matches no record with 404.
C6_MalformedAndNotFound ==
    (Sent /\ OnId /\ last.arr.conn = "connected") =>
        IF ~(last.req.id[1] = "oid")
        THEN last.resp = Message(400, "Invalid task ID format")
        ELSE NoMatch => Status = 404

\* C6, amended: with the store connected, a malformed id is answered with the
\* invalid-id 400, whatever the body, and no store operation is made for it; a
\* well-formed id that matches no record is answered 404 on Delete task and on
\* an Update task that supplies text or a boolean completed, unless the store
\* operation fails (500); an Update task that supplies neither is answered with
\* the no-update-fields 400.
C6_MalformedFirstThenNotFound ==
    /\ (Sent /\ OnId /\ last.arr.conn = "connected") =>
          IF ~(last.req.id[1] = "oid")
          THEN last.resp = Message(400, "Invalid task ID format")
          ELSE IF last.req.method = "PUT" /\ ~SuppliesField(last.req.body)
          THEN last.resp = Message(400, "No update fields provided")
          ELSE NoMatch => (last.resp = Message(404, "Task not found") \/ Status = 500)
    /\ \A r \in Slots : req[r].method \in {"PUT", "DELETE"} => req[r].id[1] = "oid"

\* an update with a malformed id and no updatable field is answered with the
\* invalid-id 400
C6_Witness ==
    /\ Answered("PUT")
    /\ last.req.id = <<"bad">>
    /\ ~SuppliesField(last.req.body)
    /\ last.resp = Message(400, "Invalid task ID format")
    /\ Len(store) = 1

\* C7 as stated: an id whose Delete task was answered 204 is in no stored
\* record from then on; every List tasks issued later omits it and every Delete
\* task or Update task issued later on it is answered 404.
C7_DeletedStaysNotFound ==
    /\ deletedIds \cap Ids(store) = {}
    /\ (Answered("GET") /\ Status = 200) =>
          \A i \in 1..Len(last.resp.body[2]) : last.resp.body[2][i]._id \notin last.arr.deleted
    /\ (Sent /\ OnId /\ last.req.id \in last.arr.deleted) => Status = 404

\* a delete is answered 204 in this step
Deleted204 == last' # last /\ last'.resp.status = 204

\* C7, amended: a Delete task answered 204 removes exactly the one record with
\* the id and no other; the id is in no stored record from then on (no create
\* reuses it); every List tasks issued later omits it; every Delete task issued
\* later on it, and every Update task issued later on it that supplies text or
\* a boolean completed, is answered 404 unless its store operation fails (500);
\* an Update task that supplies neither is answered 400.
C7_DeleteRemovesForGood ==
    /\ [][Deleted204 =>
            LET id == last'.req.id
            IN  /\ Cardinality(Matches(store, id)) = 1
                /\ Len(store') = Len(store) - 1
                /\ id \notin Ids(store')
                /\ \A i \in 1..Len(store) : store[i]._id # id =>
                      \E j \in 1..Len(store') : store'[j] = store[i]
                /\ deletedIds' = deletedIds \cup {id}]_vars
    /\ [][deletedIds \subseteq deletedIds']_vars
    /\ [](deletedIds \cap Ids(store) = {})
    /\ []((Answered("GET") /\ Status = 200) =>
            \A i \in 1..Len(last.resp.body[2]) :
                last.resp.body[2][i]._id \notin last.arr.deleted)
    /\ []((Sent /\ OnId /\ last.req.id \in last.arr.deleted) =>
            IF last.req.method = "PUT" /\ ~SuppliesField(last.req.body)
            THEN Status = 400
            ELSE Status \in {404, 500})
    /\ []((Sent /\ OnId /\ last.req.id \in last.arr.deleted /\ Status = 500) =>
            last.resp.body[1] = "text")

\* a second delete of a deleted id is answered 404 after a later create
C7_Witness ==
    /\ Answered("DELETE")
    /\ last.req.id \in last.arr.deleted
    /\ Status = 404
    /\ Len(store) = 1
    /\ nextId = 3

\* C8: requests are taken while the one connection attempt is pending; a
\* request that arrives before the connection is made is answered 503 at once,
\* with no store operation and nothing kept of it; a failed attempt ends the
\* process, with the store never touched; a request that arrives after the
\* connection is made is never answered 503; the connection state, once
\* settled, stays.
C8_StartupOrdering ==
    /\ []((Sent /\ last.arr.conn = "pending") =>
            last.resp = Text(503, "Database not initialized"))
    /\ []((Sent /\ last.arr.conn = "connected") => Status # 503)
    /\ [](conn # "connected" =>
            /\ store = <<>>
            /\ nextId = 1
            /\ \A r \in Slots : pc[r] = "idle")
    /\ [](Sent => last.arr.conn = conn)
    /\ [][conn # "pending" => conn' = conn]_vars
    /\ [][conn # "exited"]_vars

\* a request is answered 503 while the connection attempt is pending
C8_Witness ==
    /\ conn = "pending"
    /\ Answered("PUT")
    /\ last.req.id \in WellFormedIds
    /\ Status = 503

\* C9: every stored task has a completed field, and it is a boolean.
C9_CompletedIsBoolean ==
    \A i \in 1..Len(store) :
        /\ "completed" \in DOMAIN store[i]
        /\ store[i].completed \in {JTrue, JFalse}

\* an update carrying a text and a completed that is a string has been applied
\* and answered: the stored completed is still false
C9_Witness ==
    /\ Answered("PUT")
    /\ Status = 200
    /\ "completed" \in DOMAIN last.req.body
    /\ last.req.body.completed = Str(<<"y">>)
    /\ last.resp.body[1] = "task"
    /\ last.resp.body[2].completed = JFalse
    /\ "updatedAt" \in DOMAIN last.resp.body[2]

\* C10: an Update task answered 200 carries the task with the requested id.
C10_UpdateReturnsTheTask ==
    (Answered("PUT") /\ Status = 200) =>
        /\ last.resp.body[1] = "task"
        /\ last.resp.body[2]._id = last.req.id

(***************************************************************************)
(* The client: App.js.  Each handler runs against the state of the render  *)
(* it was attached in; React re-renders between two events, so a handler   *)
(* sees the current tasks and newTaskText.                                 *)
(***************************************************************************)
Keys == {" ", "a"}
Typed == UNION {[1..n -> Keys] : n \in 0..MaxLen}

\* Date.now(): milliseconds; the clock does not run backwards, and two calls
\* may fall in the same millisecond
UiClock == uiNow..MaxUiNow

\* App.js:33  onChange
SetNewTaskText(value) ==
    /\ newTaskText' = value
    /\ UNCHANGED <<tasks, uiNow, live, flipped>>
    /\ UNCHANGED backendVars

\* App.js:8-12
handleAddTask(t) ==
    /\ Len(tasks) < MaxTasks
    /\ IF Trim(newTaskText) = <<>>
       THEN UNCHANGED <<tasks, newTaskText, uiNow, live>>
       ELSE /\ tasks' = Append(tasks, [id |-> t, text |-> newTaskText, completed |-> FALSE])
            /\ newTaskText' = <<>>
            /\ uiNow' = t
            /\ live' = live \cup {t}
    /\ UNCHANGED flipped
    /\ UNCHANGED backendVars

\* App.js:14-20
handleToggleComplete(taskId) ==
    /\ LET Toggle(task) == IF task.id = taskId
                           THEN [task EXCEPT !.completed = ~task.completed]
                           ELSE task
       IN  tasks' = [i \in 1..Len(tasks) |-> Toggle(tasks[i])]
    /\ flipped' = (flipped \ {taskId}) \cup ({taskId} \ flipped)
    /\ UNCHANGED <<newTaskText, uiNow, live>>
    /\ UNCHANGED backendVars

\* App.js:22-24
handleDeleteTask(taskId) ==
    /\ LET Keep(task) == task.id # taskId
       IN  tasks' = SelectSeq(tasks, Keep)
    /\ live' = live \ {taskId}
    /\ flipped' = flipped \ {taskId}
    /\ UNCHANGED <<newTaskText, uiNow>>
    /\ UNCHANGED backendVars

\* App.js:39-46  the handlers are attached to the rendered tasks
Rendered == {tasks[i].id : i \in 1..Len(tasks)}

NextUI ==
    \/ \E value \in Typed : SetNewTaskText(value)
    \/ \E t \in UiClock : handleAddTask(t)
    \/ \E taskId \in Rendered : handleToggleComplete(taskId)
    \/ \E taskId \in Rendered : handleDeleteTask(taskId)

SpecUI == Init /\ [][NextUI]_vars


\* C1: the local list holds exactly the ids added and not deleted since, each
\* once, and each task's completed is false flipped once per toggle of its id.
C1_ListMatchesHistory ==
    /\ Rendered = live
    /\ \A i, j \in 1..Len(tasks) : tasks[i].id = tasks[j].id => i = j
    /\ \A i \in 1..Len(tasks) : tasks[i].completed = (tasks[i].id \in flipped)

====
